---- MODULE Spec2Model ----
(***************************************************************************)
(* Model of Project Snapshotter (src/main.py).                             *)
(*                                                                         *)
(* Text is modelled as sequences of one-character strings, so that         *)
(* trimming, splitting, glob matching and block formatting are computed    *)
(* character by character as the Python code computes them.                *)
(***************************************************************************)
EXTENDS Naturals, Integers, Sequences, FiniteSets, TLC

VARIABLES
    dirName,            \* file system: bare name of every directory (root included)
    files,              \* file system: the project files, in enumeration order
    outFile,            \* file system: the file at output_file_path
    sep,                \* os.sep of the platform
    exclude_patterns,   \* argument of create_project_snapshot
    outDir,             \* os.path.dirname(output_file_path): a directory id, or Outside
    outFirst,           \* scandir lists the output file before (TRUE) or after its siblings
    pc,                 \* position of the run
    stack,              \* os.walk: directories still to be walked, top first
    dirpath,            \* os.walk: the directory being yielded
    filenames,          \* the file names of dirpath not processed yet
    all_file_contents,  \* the formatted blocks collected so far
    console,            \* what the current call of create_project_snapshot has printed
    enumerated,         \* history: directories whose entries os.walk has listed
    processed,          \* history: files reached by the loop of line 106, in order
    writes,             \* history: number of writes to output_file_path in this run
    run,                \* number of the current run
    recorded,           \* history: files whose block was appended, in order
    prevBlocks,         \* history: all_file_contents at the end of the previous run
    prevOut,            \* history: outFile at the end of the previous run
    prevFailed,         \* history: the write of the previous run raised
    writeFailed,        \* history: the write of this run raised
    returned,           \* what the caller of create_project_snapshot observes
    project_is_dir,     \* file system: os.path.isdir(project_path)
    gitignore,          \* file system: the file <root>/.gitignore and how reading it goes
    final_exclude_patterns, \* __main__: the exclusion set being built
    gitignore_patterns, \* __main__: what parse_gitignore returned
    user_patterns,      \* __main__: what get_user_exclusions returned
    user_input,         \* history: the line typed at the prompt of get_user_exclusions
    called,             \* history: which of the two functions __main__ has called
    warned,             \* history: parse_gitignore printed its warning
    exitCode            \* exit status of the process

vars == <<dirName, files, outFile, sep, exclude_patterns, outDir, outFirst,
          pc, stack, dirpath, filenames, all_file_contents, console, enumerated,
          processed, recorded, writes, run, prevBlocks, prevOut, prevFailed,
          writeFailed, returned, project_is_dir, gitignore, final_exclude_patterns,
          gitignore_patterns, user_patterns, user_input, called, warned, exitCode>>

fsVars == <<dirName, files, sep, exclude_patterns, outDir, outFirst>>
histVars == <<prevBlocks, prevOut, prevFailed, run>>
mainVars == <<project_is_dir, gitignore, final_exclude_patterns, gitignore_patterns,
              user_patterns, user_input, called, warned, exitCode>>

----------------------------------------------------------------------------
(* Bounds *)

MaxFiles == 2
MaxRuns == 2

----------------------------------------------------------------------------
(* Text helpers *)

NL == "\n"
BQ == "BACKTICK"               \* the character U+0060, which a TLA+ string cannot hold
Fence == <<BQ, BQ, BQ>>

RECURSIVE Concat(_)
Concat(ss) == IF ss = <<>> THEN <<>> ELSE Head(ss) \o Concat(Tail(ss))

RECURSIVE Reverse(_)
Reverse(s) == IF s = <<>> THEN <<>> ELSE Reverse(Tail(s)) \o <<Head(s)>>

RECURSIVE Replace(_, _, _)
Replace(s, old, new) ==
    IF s = <<>> THEN <<>>
    ELSE <<(IF Head(s) = old THEN new ELSE Head(s))>> \o Replace(Tail(s), old, new)

\* fnmatch.fnmatch(name, pat) for patterns made of literals, "*" and "?".
\* fnmatch translates "*" to a regular expression that matches any run of
\* characters, the path separator included.
RECURSIVE fnmatch(_, _)
fnmatch(name, pat) ==
    IF pat = <<>> THEN name = <<>>
    ELSE IF Head(pat) = "*"
         THEN fnmatch(name, Tail(pat)) \/ (name # <<>> /\ fnmatch(Tail(name), pat))
    ELSE IF name = <<>> THEN FALSE
    ELSE (Head(pat) = "?" \/ Head(pat) = Head(name)) /\ fnmatch(Tail(name), Tail(pat))

----------------------------------------------------------------------------
(* The file system *)

Outside == -1                     \* a directory that is not part of the walked tree
Dirs == 0 .. 3                    \* 0 is the directory passed as root_dir
Parent(d) == CASE d = 1 -> 0 [] d = 2 -> 1 [] d = 3 -> 0 [] OTHER -> Outside
SubDirs(d) == {c \in Dirs \ {0} : Parent(c) = d}

RootNames == {<<"g">>}
DirNames == {<<"g">>, <<"s">>}
FileNames == {<<"a">>, <<"o">>}
Status == {"text", "binary", "ioerror", "nodrive"}
PatternPool == {<<"g">>, <<"a">>, <<"s", "/", "*">>}
OutName == <<"o">>
Seps == {"/", "\\"}

Content(i) == [k \in 1 .. i |-> "x"]

\* A file is named by its index in files; 0 names the file at output_file_path.
OutId == 0
FileIds == 1 .. Len(files)
NameOf(f) == IF f = OutId THEN OutName ELSE files[f].name
DirOf(f) == IF f = OutId THEN outDir ELSE files[f].dir
StatusOf(f) == IF f = OutId THEN "text" ELSE files[f].status
ContentOf(f) == IF f = OutId THEN outFile.content ELSE Content(f)

NoGitignore == [exists |-> FALSE, lines |-> <<>>, fails |-> FALSE, delivered |-> 0]

RECURSIVE SeqOfSet(_)
SeqOfSet(S) ==
    IF S = {} THEN <<>>
    ELSE LET m == CHOOSE x \in S : \A y \in S : x <= y IN <<m>> \o SeqOfSet(S \ {m})

\* os.scandir(d), as os.walk splits it into dirnames and filenames
ListDirs(d) == SeqOfSet(SubDirs(d))
ListFilesWith(d, out) ==
    LET own == SeqOfSet({f \in FileIds : files[f].dir = d})
    IN  IF out.exists /\ outDir = d
        THEN (IF outFirst THEN <<OutId>> \o own ELSE own \o <<OutId>>)
        ELSE own
ListFiles(d) == ListFilesWith(d, outFile)

\* os.path.join(dirpath, filename), taken relative to root_dir
RECURSIVE DirRel(_)
DirRel(d) == IF d = 0 THEN <<>> ELSE DirRel(Parent(d)) \o dirName[d] \o <<sep>>
RelPath(f) == Replace(DirRel(DirOf(f)) \o NameOf(f), sep, "/")

----------------------------------------------------------------------------
(* create_project_snapshot *)

\* faulty variant of is_excluded: no directory is pruned
never_excluded(d) == FALSE
\* line 98: any(fnmatch.fnmatch(d, p) for p in exclude_patterns)
is_excluded(d) == \E p \in exclude_patterns : fnmatch(dirName[d], p)

\* lines 95-100
dirs_to_keep(dirnames) == SelectSeq(dirnames, LAMBDA d : ~is_excluded(d))

\* faulty variant of IsOutputFile: the output file is not recognised
NeverOutputFile(f) == FALSE
\* lines 79 and 109: filename == os.path.basename(output_file_path)
IsOutputFile(f) == NameOf(f) = OutName

\* faulty variant of FileExcluded: the relative path is not tested
NameExcluded(f) == \E p \in exclude_patterns : fnmatch(NameOf(f), p)
\* line 127
FileExcluded(f) ==
    \E p \in exclude_patterns : fnmatch(NameOf(f), p) \/ fnmatch(RelPath(f), p)

\* faulty variant of formatted_block: the empty line after the block is missing
unterminated_block(relative_path, content) ==
    relative_path \o <<NL>> \o Fence \o <<NL>> \o content \o <<NL>> \o Fence \o <<NL>>
\* line 136: f"{relative_path}\n```\n{content}\n```\n\n"
formatted_block(relative_path, content) ==
    relative_path \o <<NL>> \o Fence \o <<NL>> \o content \o <<NL>> \o Fence \o <<NL, NL>>

\* faulty variant of InitialContents: the list survives from call to call
StaleContents == all_file_contents
\* line 81: every call starts from an empty list
InitialContents == <<>>

\* faulty variant of Handled: the exception leaves the function
Propagated(fs) == [pc |-> "raised", filenames |-> fs]
\* the except clauses of lines 119, 139, 143 and 147 print and let the loop go on
Handled(fs) == [pc |-> "walk", filenames |-> Tail(fs)]

Report(msg, f) == [msg |-> msg, file |-> f]

\* lines 64-83: the function is entered with exclude_patterns bound to pats
Enter(pats) ==
    /\ exclude_patterns' = pats
    /\ run' = run + 1
    /\ prevBlocks' = all_file_contents
    /\ prevOut' = outFile
    /\ prevFailed' = writeFailed
    /\ all_file_contents' = InitialContents
    /\ stack' = <<0>>
    /\ dirpath' = Outside
    /\ filenames' = <<>>
    /\ console' = <<Report("Starting project traversal...", OutId)>>
    /\ enumerated' = {}
    /\ processed' = <<>>
    /\ recorded' = <<>>
    /\ writes' = 0
    /\ writeFailed' = FALSE
    /\ returned' = "running"
    /\ pc' = "walk"
    /\ UNCHANGED <<dirName, files, sep, outDir, outFirst, outFile>>

\* a call of create_project_snapshot(root_dir, exclude_patterns, output_file_path),
\* and the same call made again once the function has returned
Call ==
    /\ pc = "idle" \/ (pc = "done" /\ run < MaxRuns)
    /\ Enter(exclude_patterns)
    /\ UNCHANGED mainVars

\* lines 88-103: os.walk lists the next directory and the loop body prunes dirnames
WalkDir ==
    /\ pc = "walk"
    /\ filenames = <<>>
    /\ stack # <<>>
    /\ LET top == Head(stack) IN
        /\ dirpath' = top
        /\ enumerated' = enumerated \cup {top}
        /\ filenames' = ListFiles(top)
        /\ stack' = dirs_to_keep(ListDirs(top)) \o Tail(stack)
    /\ UNCHANGED <<fsVars, histVars, mainVars, outFile, pc, all_file_contents, console, processed,
                   recorded, writes, writeFailed, returned>>

\* lines 109-110
SkipOutputFile ==
    /\ pc = "walk"
    /\ filenames # <<>>
    /\ IsOutputFile(Head(filenames))
    /\ filenames' = Tail(filenames)
    /\ processed' = Append(processed, Head(filenames))
    /\ UNCHANGED <<fsVars, histVars, mainVars, outFile, pc, stack, dirpath, all_file_contents, console,
                   enumerated, recorded, writes, writeFailed, returned>>

\* lines 116-122: os.path.relpath raises ValueError
SkipOtherDrive ==
    /\ pc = "walk"
    /\ filenames # <<>>
    /\ LET f == Head(filenames) IN
        /\ ~IsOutputFile(f)
        /\ StatusOf(f) = "nodrive"
        /\ console' = Append(console, Report("Skipping file on different drive", f))
        /\ processed' = Append(processed, f)
    /\ pc' = Handled(filenames).pc
    /\ filenames' = Handled(filenames).filenames
    /\ UNCHANGED <<fsVars, histVars, mainVars, outFile, stack, dirpath, all_file_contents,
                   enumerated, recorded, writes, writeFailed, returned>>

\* lines 127-128
SkipExcluded ==
    /\ pc = "walk"
    /\ filenames # <<>>
    /\ LET f == Head(filenames) IN
        /\ ~IsOutputFile(f)
        /\ StatusOf(f) # "nodrive"
        /\ FileExcluded(f)
        /\ processed' = Append(processed, f)
    /\ filenames' = Tail(filenames)
    /\ UNCHANGED <<fsVars, histVars, mainVars, outFile, pc, stack, dirpath, all_file_contents, console,
                   enumerated, recorded, writes, writeFailed, returned>>

\* lines 131-137
ReadFile ==
    /\ pc = "walk"
    /\ filenames # <<>>
    /\ LET f == Head(filenames) IN
        /\ ~IsOutputFile(f)
        /\ StatusOf(f) = "text"
        /\ ~FileExcluded(f)
        /\ all_file_contents' =
               Append(all_file_contents, formatted_block(RelPath(f), ContentOf(f)))
        /\ processed' = Append(processed, f)
        /\ recorded' = Append(recorded, f)
    /\ filenames' = Tail(filenames)
    /\ UNCHANGED <<fsVars, histVars, mainVars, outFile, pc, stack, dirpath, console,
                   enumerated, writes, writeFailed, returned>>

\* lines 139-141
IgnoreBinary ==
    /\ pc = "walk"
    /\ filenames # <<>>
    /\ LET f == Head(filenames) IN
        /\ ~IsOutputFile(f)
        /\ StatusOf(f) = "binary"
        /\ ~FileExcluded(f)
        /\ console' = Append(console, Report("Ignoring binary or non-UTF-8 file", f))
        /\ processed' = Append(processed, f)
    /\ pc' = Handled(filenames).pc
    /\ filenames' = Handled(filenames).filenames
    /\ UNCHANGED <<fsVars, histVars, mainVars, outFile, stack, dirpath, all_file_contents,
                   enumerated, recorded, writes, writeFailed, returned>>

\* lines 143-149
ReadError ==
    /\ pc = "walk"
    /\ filenames # <<>>
    /\ LET f == Head(filenames) IN
        /\ ~IsOutputFile(f)
        /\ StatusOf(f) = "ioerror"
        /\ ~FileExcluded(f)
        /\ console' = Append(console, Report("Error reading file", f))
        /\ processed' = Append(processed, f)
    /\ pc' = Handled(filenames).pc
    /\ filenames' = Handled(filenames).filenames
    /\ UNCHANGED <<fsVars, histVars, mainVars, outFile, stack, dirpath, all_file_contents,
                   enumerated, recorded, writes, writeFailed, returned>>

\* lines 152-159: the write succeeds and the function returns None
WriteOutput ==
    /\ pc = "walk"
    /\ filenames = <<>>
    /\ stack = <<>>
    /\ outFile' = [exists |-> TRUE, content |-> Concat(all_file_contents)]
    /\ writes' = writes + 1
    /\ console' = Append(console, Report("Success! Project snapshot created.", OutId))
    /\ returned' = "None"
    /\ pc' = "done"
    /\ UNCHANGED <<fsVars, histVars, mainVars, stack, dirpath, filenames, all_file_contents,
                   enumerated, processed, recorded, writeFailed>>

\* lines 161-164: open raises (permission denied, invalid path), the file stays as it
\* was, the handler prints and the function returns None
WriteFails ==
    /\ pc = "walk"
    /\ filenames = <<>>
    /\ stack = <<>>
    /\ outFile' = outFile
    /\ writeFailed' = TRUE
    /\ console' = Append(console, Report("Critical Error: Failed to write output file.", OutId))
    /\ returned' = "None"
    /\ pc' = "done"
    /\ UNCHANGED <<fsVars, histVars, mainVars, stack, dirpath, filenames, all_file_contents,
                   enumerated, processed, recorded, writes>>

----------------------------------------------------------------------------
(* Specification of calls of create_project_snapshot on bounded trees *)

FileDirs == {0, 2, 3}                \* directory 1 holds only directory 2
FileRecs == [dir : FileDirs, name : FileNames, status : Status]

TreeOK(fs, od) ==
    /\ \A i, j \in DOMAIN fs : i < j =>
          /\ fs[i].dir <= fs[j].dir
          /\ <<fs[i].dir, fs[i].name>> # <<fs[j].dir, fs[j].name>>
    /\ \A i \in DOMAIN fs :
          /\ ~(fs[i].dir = od /\ fs[i].name = OutName)
          /\ fs[i].name = OutName => fs[i].status = "text"

Init ==
    /\ dirName \in [Dirs -> RootNames \cup DirNames \cup {<<"t">>}]
    /\ dirName[0] \in RootNames
    /\ dirName[1] \in DirNames
    /\ dirName[2] = <<"s">>
    /\ dirName[3] = <<"t">>
    /\ outDir \in {0, Outside}
    /\ outFirst \in BOOLEAN
    /\ outDir = Outside => ~outFirst
    /\ \E n \in 0 .. MaxFiles : files \in [1 .. n -> FileRecs]
    /\ TreeOK(files, outDir)
    /\ sep \in Seps
    /\ \A i \in DOMAIN files : files[i].status = "nodrive" => sep = "\\"
    /\ exclude_patterns \in SUBSET PatternPool
    /\ outFile = [exists |-> FALSE, content |-> <<>>]
    /\ pc = "idle"
    /\ stack = <<>>
    /\ dirpath = Outside
    /\ filenames = <<>>
    /\ all_file_contents = <<>>
    /\ console = <<>>
    /\ enumerated = {}
    /\ processed = <<>>
    /\ recorded = <<>>
    /\ writes = 0
    /\ run = 0
    /\ prevBlocks = <<>>
    /\ prevOut = [exists |-> FALSE, content |-> <<>>]
    /\ prevFailed = FALSE
    /\ writeFailed = FALSE
    /\ returned = "running"
    /\ project_is_dir = TRUE
    /\ gitignore = NoGitignore
    /\ final_exclude_patterns = {}
    /\ gitignore_patterns = {}
    /\ user_patterns = {}
    /\ user_input = <<>>
    /\ called = {}
    /\ warned = FALSE
    /\ exitCode = "running"

Next ==
    \/ Call
    \/ WalkDir
    \/ SkipOutputFile
    \/ SkipOtherDrive
    \/ SkipExcluded
    \/ ReadFile
    \/ IgnoreBinary
    \/ ReadError
    \/ WriteOutput
    \/ WriteFails

Spec == Init /\ [][Next]_vars

----------------------------------------------------------------------------
(* parse_gitignore, get_user_exclusions and the main block *)

MaxInput == 3
MaxLines == 2

Whitespace == {" ", "\t", "\n"}

RECURSIVE lstrip(_)
lstrip(t) == IF t # <<>> /\ Head(t) \in Whitespace THEN lstrip(Tail(t)) ELSE t
\* str.strip()
strip(t) == Reverse(lstrip(Reverse(lstrip(t))))

\* str.lower(), on the letters the answers are made of
lower(t) ==
    [i \in DOMAIN t |->
        CASE t[i] = "Y" -> "y" [] t[i] = "E" -> "e" [] t[i] = "S" -> "s"
          [] t[i] = "N" -> "n" [] t[i] = "O" -> "o" [] OTHER -> t[i]]

\* str.split(c): the fields between the occurrences of c, empty fields included
RECURSIVE split(_, _)
split(t, c) ==
    IF t = <<>> THEN << <<>> >>
    ELSE LET r == split(Tail(t), c)
         IN  IF Head(t) = c THEN << <<>> >> \o r
             ELSE << <<Head(t)>> \o Head(r) >> \o Tail(r)

Range(sq) == {sq[i] : i \in DOMAIN sq}

\* lines 29-44. The file hands over its first `delivered` lines; when `fails` is set
\* the iteration then raises, the handler prints the warning, and line 44 returns
\* the patterns added so far.
parse_gitignore(file) ==
    IF ~file.exists THEN {}
    ELSE {strip(file.lines[i]) : i \in {j \in 1 .. file.delivered :
              strip(file.lines[j]) # <<>> /\ Head(strip(file.lines[j])) # "#"}}

\* lines 55-62, for the line typed at the prompt
get_user_exclusions(typed) ==
    LET stripped == strip(typed)
    IN  IF stripped = <<>> THEN {}
        ELSE {strip(pattern) : pattern \in Range(split(stripped, ","))}

\* lines 199-212
Defaults ==
    {<<".", "g", "i", "t">>,
     <<"n", "o", "d", "e", "_", "m", "o", "d", "u", "l", "e", "s">>,
     <<"_", "_", "p", "y", "c", "a", "c", "h", "e", "_", "_">>,
     <<"v", "e", "n", "v">>,
     <<".", "v", "e", "n", "v">>,
     <<".", "v", "s", "c", "o", "d", "e">>,
     <<".", "i", "d", "e", "a">>,
     <<"d", "i", "s", "t">>,
     <<"b", "u", "i", "l", "d">>,
     <<"*", ".", "p", "y", "c">>,
     <<"*", ".", "t", "m", "p">>,
     <<".", "D", "S", "_", "S", "t", "o", "r", "e">>}

\* faulty variant of update: the set is replaced instead of extended
replaced(base, more) == more
\* lines 225, 232 and 241: final_exclude_patterns.update(...)
update(base, more) == base \cup more

\* lines 219, 221, 237 and 239: input(...).strip().lower() in ('yes', 'y')
IsYes(answer) == lower(strip(answer)) \in {<<"y", "e", "s">>, <<"y">>}

Answers == {<<"y", "e", "s">>, <<" ", "Y", "\n">>, <<"n", "o">>, <<>>, <<"y", "e", "a", "h">>}
InputChars == {"a", ",", " "}
Inputs == UNION {[1 .. n -> InputChars] : n \in 0 .. MaxInput}
LinePool == {<<"#", "a", "\n">>, <<" ", "b", "\n">>, <<"\n">>, <<"c">>}
LineSeqs == UNION {[1 .. n -> LinePool] : n \in 0 .. MaxLines}
GitignoreName == <<".", "g", "i", "t", "i", "g", "n", "o", "r", "e">>

\* lines 184-190
MainBadPath ==
    /\ pc = "main"
    /\ ~project_is_dir
    /\ exitCode' = "1"
    /\ pc' = "exited"
    /\ UNCHANGED <<fsVars, histVars, outFile, stack, dirpath, filenames, all_file_contents,
                   console, enumerated, processed, recorded, writes, writeFailed, returned,
                   project_is_dir, gitignore, final_exclude_patterns, gitignore_patterns,
                   user_patterns, user_input, called, warned>>

\* lines 184-214
MainStart ==
    /\ pc = "main"
    /\ project_is_dir
    /\ final_exclude_patterns' = Defaults
    /\ pc' = "exclusions"
    /\ UNCHANGED <<fsVars, histVars, outFile, stack, dirpath, filenames, all_file_contents,
                   console, enumerated, processed, recorded, writes, writeFailed, returned,
                   project_is_dir, gitignore, gitignore_patterns,
                   user_patterns, user_input, called, warned, exitCode>>

AskUser(typed) ==
    /\ user_input' = typed
    /\ user_patterns' = get_user_exclusions(typed)
    /\ final_exclude_patterns' = update(final_exclude_patterns, get_user_exclusions(typed))
    /\ called' = called \cup {"get_user_exclusions"}
    /\ pc' = "snapshot"
    /\ UNCHANGED <<fsVars, histVars, outFile, stack, dirpath, filenames, all_file_contents,
                   console, enumerated, processed, recorded, writes, writeFailed, returned,
                   project_is_dir, gitignore, gitignore_patterns, warned, exitCode>>

\* lines 216-226
UseGitignore ==
    /\ pc = "exclusions"
    /\ gitignore.exists
    /\ \E answer \in Answers : IsYes(answer)
    /\ gitignore_patterns' = parse_gitignore(gitignore)
    /\ warned' = gitignore.fails
    /\ final_exclude_patterns' = update(final_exclude_patterns, parse_gitignore(gitignore))
    /\ called' = called \cup {"parse_gitignore"}
    /\ pc' = "snapshot"
    /\ UNCHANGED <<fsVars, histVars, outFile, stack, dirpath, filenames, all_file_contents,
                   console, enumerated, processed, recorded, writes, writeFailed, returned,
                   project_is_dir, gitignore, user_patterns, user_input, exitCode>>

\* lines 228-232
IgnoreGitignore ==
    /\ pc = "exclusions"
    /\ gitignore.exists
    /\ \E answer \in Answers : ~IsYes(answer)
    /\ \E typed \in Inputs : AskUser(typed)

\* lines 234-241
AddManual ==
    /\ pc = "exclusions"
    /\ ~gitignore.exists
    /\ \E answer \in Answers : IsYes(answer)
    /\ \E typed \in Inputs : AskUser(typed)

\* lines 243-244
DefaultsOnly ==
    /\ pc = "exclusions"
    /\ ~gitignore.exists
    /\ \E answer \in Answers : ~IsYes(answer)
    /\ pc' = "snapshot"
    /\ UNCHANGED <<fsVars, histVars, mainVars, outFile, stack, dirpath, filenames,
                   all_file_contents, console, enumerated, processed, recorded, writes,
                   writeFailed, returned>>

\* line 247
RunSnapshot ==
    /\ pc = "snapshot"
    /\ Enter(final_exclude_patterns)
    /\ UNCHANGED mainVars

\* the function has returned and the script ends
MainExit ==
    /\ pc = "done"
    /\ exitCode' = "0"
    /\ pc' = "exited"
    /\ UNCHANGED <<fsVars, histVars, outFile, stack, dirpath, filenames, all_file_contents,
                   console, enumerated, processed, recorded, writes, writeFailed, returned,
                   project_is_dir, gitignore, final_exclude_patterns, gitignore_patterns,
                   user_patterns, user_input, called, warned>>

GitignoreFiles ==
    {NoGitignore} \cup
    {[exists |-> TRUE, lines |-> ls, fails |-> fl, delivered |-> k] :
        <<ls, fl, k>> \in {t \in LineSeqs \X BOOLEAN \X (0 .. MaxLines) :
                            t[3] <= Len(t[1]) /\ (~t[2] => t[3] = Len(t[1]))}}

ProjectFiles(gi) ==
    << [dir |-> 0, name |-> <<"a">>, status |-> "text"] >>
    \o (IF gi.exists
        THEN << [dir |-> 0, name |-> GitignoreName,
                 status |-> IF gi.fails THEN "binary" ELSE "text"] >>
        ELSE <<>>)
    \o << [dir |-> 0, name |-> <<"x", ".", "t", "m", "p">>, status |-> "text"],
          [dir |-> 2, name |-> <<"c">>, status |-> "text"],
          [dir |-> 3, name |-> <<"i">>, status |-> "binary"],
          [dir |-> 3, name |-> <<"e">>, status |-> "ioerror"],
          [dir |-> 3, name |-> <<"n">>, status |-> "nodrive"],
          [dir |-> 3, name |-> OutName, status |-> "text"] >>

InitMain ==
    /\ project_is_dir \in BOOLEAN
    /\ gitignore \in GitignoreFiles
    /\ dirName = [d \in Dirs |->
                    CASE d = 0 -> <<"p">> [] d = 1 -> <<".", "g", "i", "t">>
                      [] d = 2 -> <<"s">> [] OTHER -> <<"b">>]
    /\ files = ProjectFiles(gitignore)
    /\ sep = "/"
    /\ outDir = Outside
    /\ outFirst = FALSE
    /\ exclude_patterns = {}
    /\ outFile = [exists |-> FALSE, content |-> <<>>]
    /\ pc = "main"
    /\ stack = <<>>
    /\ dirpath = Outside
    /\ filenames = <<>>
    /\ all_file_contents = <<>>
    /\ console = <<>>
    /\ enumerated = {}
    /\ processed = <<>>
    /\ recorded = <<>>
    /\ writes = 0
    /\ run = 0
    /\ prevBlocks = <<>>
    /\ prevOut = [exists |-> FALSE, content |-> <<>>]
    /\ prevFailed = FALSE
    /\ writeFailed = FALSE
    /\ returned = "running"
    /\ final_exclude_patterns = {}
    /\ gitignore_patterns = {}
    /\ user_patterns = {}
    /\ user_input = <<>>
    /\ called = {}
    /\ warned = FALSE
    /\ exitCode = "running"

NextMain ==
    \/ MainBadPath
    \/ MainStart
    \/ UseGitignore
    \/ IgnoreGitignore
    \/ AddManual
    \/ DefaultsOnly
    \/ RunSnapshot
    \/ WalkDir
    \/ SkipOutputFile
    \/ SkipOtherDrive
    \/ SkipExcluded
    \/ ReadFile
    \/ IgnoreBinary
    \/ ReadError
    \/ WriteOutput
    \/ WriteFails
    \/ MainExit

SpecMain == InitMain /\ [][NextMain]_vars

----------------------------------------------------------------------------
(* Vocabulary of the claims *)

Matches(name) == \E p \in exclude_patterns : fnmatch(name, p)

RECURSIVE SlashDir(_)
SlashDir(d) == IF d = 0 THEN <<>> ELSE SlashDir(Parent(d)) \o dirName[d] \o <<"/">>
SlashPath(f) == SlashDir(DirOf(f)) \o NameOf(f)

RECURSIVE Ancestors(_)
Ancestors(d) == IF d \notin Dirs THEN {} ELSE {d} \cup Ancestors(Parent(d))
Beneath(f, d) == d \in Ancestors(DirOf(f))
UnderPruned(f) == \E d \in Dirs \ {0} : Beneath(f, d) /\ Matches(dirName[d])

BlockText(f) ==
    SlashPath(f) \o <<NL, BQ, BQ, BQ, NL>> \o ContentOf(f) \o <<NL, BQ, BQ, BQ, NL, NL>>
Blocks(f) == {i \in DOMAIN all_file_contents : all_file_contents[i] = BlockText(f)}

RECURSIVE HeaderOf(_)
HeaderOf(block) ==
    IF block = <<>> \/ Head(block) = NL THEN <<>>
    ELSE <<Head(block)>> \o HeaderOf(Tail(block))

InSeq(x, sq) == \E i \in DOMAIN sq : sq[i] = x
FileMatched(f) == Matches(NameOf(f)) \/ Matches(SlashPath(f))
Fails(f) ==
    /\ NameOf(f) # OutName
    /\ \/ StatusOf(f) = "nodrive"
       \/ StatusOf(f) \in {"binary", "ioerror"} /\ ~FileMatched(f)
Reported(f) == \E i \in DOMAIN console : console[i].file = f /\ f # OutId

\* the files the walk is to visit, in order, given the directories still to be walked
RECURSIVE Visit(_)
Visit(stk) ==
    IF stk = <<>> THEN <<>>
    ELSE ListFilesWith(Head(stk), prevOut)
         \o Visit(SelectSeq(ListDirs(Head(stk)), LAMBDA d : ~Matches(dirName[d]))
                  \o Tail(stk))

----------------------------------------------------------------------------
(* Claims *)

\* C1 as stated: no directory whose bare name matches an exclusion pattern is ever
\* listed by the walk, and no file beneath such a directory has a block.
C1_AnyMatchingDirPruned ==
    \A d \in Dirs : Matches(dirName[d]) =>
        /\ d \notin enumerated
        /\ \A f \in FileIds : Beneath(f, d) => Blocks(f) = {}

\* C1 amended: the same for every directory other than the root passed to the walk.
C1_MatchingSubdirPruned ==
    \A d \in Dirs \ {0} : Matches(dirName[d]) =>
        /\ d \notin enumerated
        /\ \A f \in FileIds : Beneath(f, d) => Blocks(f) = {}

C1_Witness ==
    /\ pc = "done"
    /\ Matches(dirName[1])
    /\ recorded # <<>>
    /\ \E f \in FileIds :
          files[f].dir = 2 /\ files[f].status = "text" /\ ~FileMatched(f)
             /\ files[f].name # OutName

\* C2 as stated: after the run a file whose name or slash path matches a pattern has
\* no block, and every other text-decodable file has exactly one block.
C2_AllOthersPresent ==
    pc = "done" =>
        \A f \in FileIds :
            /\ FileMatched(f) => Blocks(f) = {}
            /\ (~FileMatched(f) /\ StatusOf(f) = "text") => Cardinality(Blocks(f)) = 1

\* C2 amended: a matching file has no block; every other file that is read as text,
\* is not beneath a pruned directory and is not named like the output file has
\* exactly one block.
C2_ReachedOthersPresent ==
    pc = "done" =>
        \A f \in FileIds :
            /\ FileMatched(f) => Blocks(f) = {}
            /\ (~FileMatched(f) /\ StatusOf(f) = "text" /\ ~UnderPruned(f)
                  /\ NameOf(f) # OutName) => Cardinality(Blocks(f)) = 1

C2_Witness ==
    /\ pc = "done"
    /\ \E f, h \in FileIds :
          /\ ~Matches(NameOf(f)) /\ Matches(SlashPath(f)) /\ ~UnderPruned(f)
          /\ StatusOf(f) = "text"
          /\ ~FileMatched(h) /\ Blocks(h) # {}

\* C3: no block of the output is headed by the base name of output_file_path, also
\* when the output file of an earlier run lies in the walked root.
C3_NoBlockForOutputFile ==
    \A i \in DOMAIN all_file_contents : HeaderOf(all_file_contents[i]) # OutName

C3_Witness ==
    /\ pc = "done"
    /\ run = 2
    /\ outDir = 0
    /\ prevOut.exists
    /\ InSeq(OutId, processed)
    /\ all_file_contents # <<>>

\* C4: a failing file never stops the walk: no exception leaves the function, every
\* file the walk is to visit is processed, a failing file has no block and is
\* reported, and the run ends with the write attempted and a normal return.
C4_FailuresDoNotStopWalk ==
    /\ pc # "raised"
    /\ pc = "done" =>
          /\ processed = Visit(<<0>>)
          /\ writes + (IF writeFailed THEN 1 ELSE 0) = 1
          /\ returned = "None"
          /\ ~writeFailed =>
                console[Len(console)].msg = "Success! Project snapshot created."
          /\ \A f \in FileIds : (InSeq(f, processed) /\ Fails(f)) =>
                Blocks(f) = {} /\ Reported(f)

C4_Witness ==
    /\ pc = "done"
    /\ ~writeFailed
    /\ \E i, j \in DOMAIN processed :
          /\ i < j
          /\ Fails(processed[i])
          /\ Blocks(processed[j]) # {}

\* C5 as stated: when the final write fails, what the caller gets back differs from
\* what it gets back after a successful run (None).
C5_WriteFailureVisibleToCaller ==
    (pc = "done" /\ writeFailed) => returned # "None"

C7_SecondRunIdentical ==
    (pc = "done" /\ run >= 2) =>
        /\ all_file_contents = prevBlocks
        /\ (~writeFailed /\ ~prevFailed) => outFile = prevOut

C7_Witness ==
    /\ pc = "done"
    /\ run = 2
    /\ outDir = 0
    /\ ~writeFailed
    /\ ~prevFailed
    /\ prevOut.exists
    /\ InSeq(OutId, processed)
    /\ Len(all_file_contents) = 2

\* C8 as stated: get_user_exclusions returns the entries between the commas, each
\* trimmed, without the entries that are empty after trimming.
C8_EmptyEntriesDropped ==
    "get_user_exclusions" \in called =>
        /\ user_patterns = {strip(e) : e \in Range(split(user_input, ","))} \ {<<>>}
        /\ <<>> \notin user_patterns

\* C9 as stated: when reading the ignore-file fails, parse_gitignore returns the
\* empty set, prints its warning and raises nothing.
C9_FailedReadContributesNothing ==
    ("parse_gitignore" \in called /\ gitignore.fails) =>
        /\ gitignore_patterns = {}
        /\ warned
        /\ pc # "raised"

\* C10: whatever the answers, the set create_project_snapshot is called with holds
\* every default pattern and is the union of the defaults with what parse_gitignore
\* and get_user_exclusions returned.
C10_DefaultsAlwaysApplied ==
    run >= 1 =>
        /\ Defaults \subseteq exclude_patterns
        /\ exclude_patterns = Defaults \cup gitignore_patterns \cup user_patterns
        /\ "parse_gitignore" \notin called => gitignore_patterns = {}
        /\ "get_user_exclusions" \notin called => user_patterns = {}

C10_Witness ==
    /\ pc = "done"
    /\ gitignore.exists
    /\ called = {"get_user_exclusions"}
    /\ user_patterns = {<<"a">>}

====
